---- MODULE Spec2Model ----
(***************************************************************************)
(* Reading store and query engine of the plant-monitor API                 *)
(* (backend/api.py, backend/setup_db.py).                                  *)
(*                                                                         *)
(* The store is the SQLite file behind get_conn (DATABASE_URL unset, so    *)
(* IS_PG is false).  Requests run concurrently, each on a connection of    *)
(* its own and outside any transaction that spans statements, so a step of *)
(* the model is one statement that reads or writes the file together with  *)
(* the Python code up to the next one.  save_readings, latest_readings and *)
(* reading_history have one such statement and are one step each;          *)
(* get_status, summary, delete_latest_reading and reset_plant_data have    *)
(* several, and other requests can commit between their steps.  The        *)
(* CREATE TABLE IF NOT EXISTS of get_conn is taken with the first          *)
(* statement of its handler: every request runs it first, so no request    *)
(* can tell whether another one has run it already.                        *)
(*                                                                         *)
(* Numbers: a JSON number x is carried as the integer 4*x ("quarters"), so *)
(* 450 is 1800 and 22.5 is 90.  Every such number is a double without      *)
(* rounding error, as is every sum of a few of them.  Stored moisture is a *)
(* plain integer (the result of int()), stored temperature is in quarters  *)
(* of a degree, and a rounded average round(x, 1) is in tenths.  Time is   *)
(* counted in hours since the start of the model.                          *)
(*                                                                         *)
(* A handler that raises after get_conn never closes its connection.  How  *)
(* long the connection object then lives is not fixed by the code: it is   *)
(* closed at once when nothing refers to the frame that failed, and by a   *)
(* later collection when the exception's traceback is still referred to.   *)
(* Both outcomes are modelled, and Release is the later collection.  While *)
(* it lives, the connection of a failed INSERT is inside its write         *)
(* transaction and holds the write lock of the file: reads go on, and      *)
(* every write of another connection raises "database is locked".          *)
(***************************************************************************)
EXTENDS Integers, Sequences, FiniteSets, Bags, TLC

(***************************************************************************)
(* Bounds of the model.                                                    *)
(*   MaxId       largest row id handed out                                 *)
(*   MaxNow      last hour of the store clock                              *)
(*   MaxOpen     connections left behind by failed requests and not yet    *)
(*               collected                                                 *)
(*   MaxInFlight requests that are between two of their statements         *)
(*   MaxSummaries  of these, requests of summary, which only read and so   *)
(*               have no effect on one another                             *)
(***************************************************************************)
MaxId == 2
MaxNow == 36
MaxOpen == 2
MaxInFlight == 2
MaxSummaries == 1

(***************************************************************************)
(* Program constants.                                                      *)
(***************************************************************************)
IS_PG == FALSE
DefaultDevice == "esp32-1"
MoistureMin == 0
MoistureMax == 2000
TempMin == -20
TempMax == 100
DefaultHours == 168
DefaultLimit == 500
LimitMax == 5000
StaleSeconds == 600
DayHours == 24
ConfirmToken == "yes-delete-all"

\* The clock advances half a day at a time: rows are then younger than the
\* 24 hours of get_status (12 h), exactly that old, and older (36 h), and two
\* rows of different timestamps can both be a day old.
TickHours == DayHours \div 2

\* Hours between the first date SQLite can represent (julian day 0) and the
\* start of the model; datetime('now', '-N hours') is NULL below it.
JulianOriginHours == 2461344 * 24

(***************************************************************************)
(* JSON values of a request body.                                          *)
(*   k = "int"    JSON integer, v = 4 * value                              *)
(*   k = "float"  finite JSON number with a fraction, v = 4 * value        *)
(*   k = "inf"    a number beyond the double range (1e999), parsed as inf  *)
(*   k = "nan"    a string that float() reads as NaN ("nan")               *)
(*   k = "strint" a string holding an integer literal ("2000")             *)
(*   k = "strdec" a string holding a decimal literal ("99.5")              *)
(*   k = "strbad" a string that is not a number ("abc")                    *)
(*   k = "null"   JSON null                                                *)
(*   k = "absent" the key is not in the object                             *)
(***************************************************************************)
JInt(n) == [k |-> "int", v |-> 4 * n]
JFloat(quarters) == [k |-> "float", v |-> quarters]
JOther(kind) == [k |-> kind, v |-> 0]
JStrInt(n) == [k |-> "strint", v |-> 4 * n]
JStrDec(quarters) == [k |-> "strdec", v |-> quarters]
Absent == JOther("absent")

\* A request body of POST /readings: no body ("none"), the empty object
\* ("empty") or an object ("dict") with the keys moisture (m), temperature
\* (t) and device_id (d: "absent", "null" or the string given).
Dict(m, t, d) == [body |-> "dict", m |-> m, t |-> t, d |-> d]
NoData(kind) == [body |-> kind, m |-> Absent, t |-> Absent, d |-> "absent"]

Payloads ==
    { NoData("none"), NoData("empty"),
      Dict(Absent, Absent, "probe-2"),
      Dict(JInt(0), Absent, "absent"),
      Dict(JOther("strbad"), Absent, "absent"),
      Dict(JOther("strbad"), JInt(100), "absent"),
      Dict(JStrDec(2), JInt(100), "absent"),
      Dict(JInt(0), JOther("null"), "absent"),
      Dict(JInt(2001), JOther("strbad"), "absent"),
      Dict(JInt(2001), JFloat(401), "absent"),
      Dict(JInt(-1), JInt(100), "absent"),
      Dict(JInt(0), JFloat(401), "absent"),
      Dict(JInt(0), JFloat(-81), "absent"),
      Dict(JFloat(-2), JInt(100), "absent"),
      Dict(JOther("inf"), JInt(100), "absent"),
      Dict(JInt(0), JOther("nan"), "absent"),
      Dict(JInt(0), JInt(100), "null"),
      Dict(JInt(0), JInt(100), "absent"),
      Dict(JInt(2000), JInt(-20), "probe-2"),
      Dict(JStrInt(2000), JStrInt(-20), "probe-2") }

\* The checks read nothing but the payload, so the requests that run
\* alongside the others are the ones whose outcome depends on the store or
\* changes it (they get as far as the INSERT) and one that fails a check.
StorePayloads ==
    { Dict(JInt(2001), JFloat(401), "absent"),
      Dict(JFloat(-2), JInt(100), "absent"),
      Dict(JInt(0), JInt(100), "null"),
      Dict(JInt(0), JInt(100), "absent"),
      Dict(JInt(2000), JInt(-20), "probe-2") }

\* Truncation toward zero of a value in quarters, as int() does on a float.
Trunc(q) == IF q >= 0 THEN q \div 4 ELSE -((-q) \div 4)

\* int(x): [exc |-> "" and v |-> integer] or the exception raised.
PyInt(x) ==
    CASE x.k = "int" -> [exc |-> "", v |-> x.v \div 4]
      [] x.k = "float" -> [exc |-> "", v |-> Trunc(x.v)]
      [] x.k = "inf" -> [exc |-> "OverflowError", v |-> 0]
      [] x.k = "nan" -> [exc |-> "ValueError", v |-> 0]
      [] x.k = "strint" -> [exc |-> "", v |-> x.v \div 4]
      [] x.k = "strdec" -> [exc |-> "ValueError", v |-> 0]
      [] x.k = "strbad" -> [exc |-> "ValueError", v |-> 0]
      [] OTHER -> [exc |-> "TypeError", v |-> 0]

\* float(x): [exc |-> "", k |-> "num"/"inf"/"nan", v |-> quarters] or the
\* exception raised.
PyFloat(x) ==
    CASE x.k \in {"int", "float", "strint", "strdec"} ->
            [exc |-> "", k |-> "num", v |-> x.v]
      [] x.k = "inf" -> [exc |-> "", k |-> "inf", v |-> 0]
      [] x.k = "nan" -> [exc |-> "", k |-> "nan", v |-> 0]
      [] x.k = "strbad" -> [exc |-> "ValueError", k |-> "", v |-> 0]
      [] OTHER -> [exc |-> "TypeError", k |-> "", v |-> 0]

(***************************************************************************)
(* State.                                                                  *)
(*   table      shape of the readings table in the database file:          *)
(*              "absent", "current" (the columns of get_conn) or "legacy"  *)
(*              (the columns of setup_db.py, without device_id)            *)
(*   rows       the rows of readings                                       *)
(*   seq        sqlite_sequence.seq of readings, 0 when it has no entry    *)
(*   now        the store clock, in hours                                  *)
(*   openConns  connections opened by get_conn and not closed              *)
(*   locked     a connection left behind by a failed INSERT is alive and   *)
(*              holds the write lock of the file                           *)
(*   inflight   the requests between two of their statements, a bag of     *)
(*              records: the handler (op), the statement reached (pc) and  *)
(*              what the handler has read so far (n, row, acc)             *)
(*   resp       the response of the request that completed last            *)
(***************************************************************************)
VARIABLES table, rows, seq, now, openConns, locked, inflight, resp

vars == <<table, rows, seq, now, openConns, locked, inflight, resp>>

\* A value that may be None / NULL.
Null == [null |-> TRUE, v |-> 0]
Some(x) == [null |-> FALSE, v |-> x]

NoRow == [id |-> 0, device_id |-> "", moisture |-> 0, temperature |-> 0,
          timestamp |-> 0]
NoReq == [body |-> "none"]
NoBody == [empty |-> TRUE]

\* What summary has read: MIN and MAX of timestamp, moisture, temperature.
NoAcc == [first |-> Null, last |-> Null, minm |-> Null, maxm |-> Null,
          mint |-> Null, maxt |-> Null]

\* A request in flight.
Running(op, pc, n, row, acc) ==
    [op |-> op, pc |-> pc, n |-> n, row |-> row, acc |-> acc]

Response(op, code, msg, req, body) ==
    [op |-> op, code |-> code, msg |-> msg, req |-> req, body |-> body]

\* An exception no handler catches: Flask answers 500.
Crash(op, exc, text, req) == Response(op, 500, exc, req, [text |-> text])

LockedText == "database is locked"
NoColumnText == "no such column: device_id"
NoInsertColumnText == "table readings has no column named device_id"

Max2(a, b) == IF a >= b THEN a ELSE b
Min2(a, b) == IF a <= b THEN a ELSE b

\* Connections held by requests that are still running.
Held == BagCardinality(inflight)

\* A failed request may leave a connection behind only while fewer than
\* MaxOpen are left behind already (bound of the model).
MayLeak == openConns - Held < MaxOpen

\* A further request may stop between two statements (bound of the model).
MayStart == Held < MaxInFlight

\* A handler raises after get_conn and before conn.close(): the connection it
\* has just opened (held = 0) or has held since an earlier step (held = 1) is
\* closed at once or left behind (kept); left behind inside a write
\* transaction (writer) it holds the write lock.
Abandon(held, kept, writer) ==
    /\ kept => MayLeak
    /\ openConns' = openConns - held + (IF kept THEN 1 ELSE 0)
    /\ locked' = (locked \/ (kept /\ writer))

(***************************************************************************)
(* get_conn: CREATE TABLE IF NOT EXISTS creates the table of the current   *)
(* shape when there is none and leaves an existing table as it is.         *)
(***************************************************************************)
GetConnTable(t) == IF t = "absent" THEN "current" ELSE t

HasDeviceId(t) == t = "current"

(***************************************************************************)
(* The statements.                                                         *)
(***************************************************************************)
MaxRowId(S) == IF S = {} THEN 0
               ELSE CHOOSE n \in {r.id : r \in S} : \A r \in S : r.id <= n

\* AUTOINCREMENT: one more than the largest rowid ever used.
NextId(S, sq) == Max2(sq, MaxRowId(S)) + 1

\* First row of ORDER BY timestamp DESC: SQLite's sorter keeps rows of equal
\* timestamp in rowid order.
FirstByTimestampDesc(S) ==
    CHOOSE r \in S : \A q \in S :
        \/ r.timestamp > q.timestamp
        \/ (r.timestamp = q.timestamp /\ r.id <= q.id)

RECURSIVE OrderByTimestampDesc(_)
OrderByTimestampDesc(S) ==
    IF S = {} THEN <<>>
    ELSE LET r == FirstByTimestampDesc(S)
         IN <<r>> \o OrderByTimestampDesc(S \ {r})

Limit(sq, n) == SubSeq(sq, 1, Min2(n, Len(sq)))

Reverse(sq) == [i \in 1..Len(sq) |-> sq[Len(sq) + 1 - i]]

\* SELECT ... ORDER BY timestamp DESC LIMIT 1, as fetchone(): a sequence of
\* no row or one row.
SelectLatest(S) == Limit(OrderByTimestampDesc(S), 1)

\* datetime('now', '-N hours'): the cutoff, or NULL when the date is before
\* the first one SQLite represents.
Datetime(t, hours) ==
    IF t - hours < -JulianOriginHours THEN Null ELSE Some(t - hours)

(***************************************************************************)
(* POST /readings                                                          *)
(***************************************************************************)
TemperatureOutOfRange(f) ==
    CASE f.k = "num" -> f.v < 4 * TempMin \/ f.v > 4 * TempMax
      [] f.k = "inf" -> TRUE
      [] OTHER -> FALSE   \* nan: both comparisons are false

MoistureOutOfRange(m) == m < MoistureMin \/ m > MoistureMax

DeviceOf(p) == IF p.d = "absent" THEN DefaultDevice ELSE p.d

\* The checks of save_readings before the connection is opened: the response
\* of the first check that fails, or code 0 when all pass.
Validate(p) ==
    IF p.body \in {"none", "empty"}
    THEN Response("ingest", 400, "No data provided", p, NoBody)
    ELSE IF p.m.k = "absent"
    THEN Response("ingest", 400, "moisture data is missing", p, NoBody)
    ELSE IF p.t.k = "absent"
    THEN Response("ingest", 400, "temperature data is missing", p, NoBody)
    ELSE IF PyInt(p.m).exc = "OverflowError"
    THEN Crash("ingest", "OverflowError", "cannot convert float infinity to integer", p)
    ELSE IF PyInt(p.m).exc # "" \/ PyFloat(p.t).exc # ""
    THEN Response("ingest", 400,
         "Invalid data types: moisture must be integer, temperature must be number",
         p, NoBody)
    ELSE IF MoistureOutOfRange(PyInt(p.m).v)
    THEN Response("ingest", 400, "moisture levels are invalid", p, NoBody)
    ELSE IF TemperatureOutOfRange(PyFloat(p.t))
    THEN Response("ingest", 400, "temperature levels are invalid", p, NoBody)
    ELSE Response("ingest", 0, "", p, NoBody)

\* The exception of the INSERT and its text, "" when it succeeds.  The
\* statement is compiled first (the legacy table has no device_id column),
\* then it takes the write lock, then it checks the row: device_id and
\* temperature are NOT NULL, and SQLite binds a NaN as NULL.
InsertError(t, lk, p) ==
    IF ~HasDeviceId(t) THEN <<"OperationalError", NoInsertColumnText>>
    ELSE IF lk THEN <<"OperationalError", LockedText>>
    ELSE IF p.d = "null"
    THEN <<"IntegrityError", "NOT NULL constraint failed: readings.device_id">>
    ELSE IF PyFloat(p.t).k = "nan"
    THEN <<"IntegrityError", "NOT NULL constraint failed: readings.temperature">>
    ELSE <<"", "">>

NewRow(p) ==
    [id |-> NextId(rows, seq), device_id |-> DeviceOf(p),
     moisture |-> PyInt(p.m).v, temperature |-> PyFloat(p.t).v,
     timestamp |-> now]

Ingest(p) ==
    LET v == Validate(p)
        e == InsertError(GetConnTable(table), locked, p)
    IN
    IF v.code # 0
    THEN /\ resp' = v
         /\ UNCHANGED <<table, rows, seq, now, openConns, locked, inflight>>
    ELSE IF e[1] # ""
    THEN /\ \E kept \in BOOLEAN : Abandon(0, kept, e[1] = "IntegrityError")
         /\ table' = GetConnTable(table)
         /\ resp' = Crash("ingest", e[1], e[2], p)
         /\ UNCHANGED <<rows, seq, now, inflight>>
    ELSE /\ NextId(rows, seq) <= MaxId
         /\ table' = GetConnTable(table)
         /\ rows' = rows \cup {NewRow(p)}
         /\ seq' = NextId(rows, seq)
         /\ resp' = Response("ingest", 201, "Reading saved successfully!", p,
                             NoBody)
         /\ UNCHANGED <<now, openConns, locked, inflight>>

(***************************************************************************)
(* GET /readings/latest                                                    *)
(***************************************************************************)
Latest ==
    IF ~HasDeviceId(GetConnTable(table))
    THEN /\ \E kept \in BOOLEAN : Abandon(0, kept, FALSE)
         /\ table' = GetConnTable(table)
         /\ resp' = Crash("latest", "OperationalError", NoColumnText, NoReq)
         /\ UNCHANGED <<rows, seq, now, inflight>>
    ELSE /\ table' = GetConnTable(table)
         /\ resp' = IF SelectLatest(rows) = <<>>
                    THEN Response("latest", 404, "No readings yet", NoReq,
                                  NoBody)
                    ELSE Response("latest", 200, "", NoReq,
                                  SelectLatest(rows)[1])
         /\ UNCHANGED <<rows, seq, now, openConns, locked, inflight>>

(***************************************************************************)
(* GET /readings/history?hours=&limit=                                     *)
(***************************************************************************)
HugeHours == 10 ^ 8

\* Query parameters as request.args.get(name, default, type=int) sees them:
\* not given stands for a missing or non-integer parameter.
ArgAbsent == [given |-> FALSE, v |-> 0]
Arg(n) == [given |-> TRUE, v |-> n]

\* <<hours, limit>> of a request
HistoryInputs ==
    { <<ArgAbsent, ArgAbsent>>, <<Arg(0), ArgAbsent>>, <<Arg(0), Arg(0)>>,
      <<ArgAbsent, Arg(0)>>, <<ArgAbsent, Arg(LimitMax + 1)>>,
      <<Arg(TickHours), Arg(1)>>, <<Arg(TickHours), ArgAbsent>>,
      <<Arg(2 * TickHours), Arg(1)>>, <<Arg(2 * TickHours), Arg(2)>>,
      <<ArgAbsent, Arg(1)>>, <<ArgAbsent, Arg(2)>>,
      <<Arg(HugeHours), ArgAbsent>> }

\* The requests of history that run alongside the others.
StoreHistoryInputs ==
    { <<ArgAbsent, ArgAbsent>>, <<Arg(0), Arg(0)>>, <<Arg(TickHours), Arg(1)>> }

ArgOr(a, default) == IF a.given THEN a.v ELSE default

\* WHERE timestamp > datetime('now', ?): a comparison with NULL selects no row.
Window(S, t, hours) ==
    {r \in S : ~Datetime(t, hours).null /\ r.timestamp > Datetime(t, hours).v}

SelectWindow(S, t, hours, limit) ==
    Limit(OrderByTimestampDesc(Window(S, t, hours)), limit)

HistoryBody(hours, limit, readings) ==
    [hours |-> hours, limit |-> limit, count |-> Len(readings),
     readings |-> readings]

History(h, l) ==
    LET hours == ArgOr(h, DefaultHours)
        limit == ArgOr(l, DefaultLimit)
        req == [hours |-> hours, limit |-> limit]
    IN
    IF hours <= 0
    THEN /\ table' = GetConnTable(table)
         /\ resp' = Response("history", 400, "hours must be > 0", req, NoBody)
         /\ UNCHANGED <<rows, seq, now, openConns, locked, inflight>>
    ELSE IF limit <= 0 \/ limit > LimitMax
    THEN /\ table' = GetConnTable(table)
         /\ resp' = Response("history", 400,
                             "limit must be between 1 and 5000", req, NoBody)
         /\ UNCHANGED <<rows, seq, now, openConns, locked, inflight>>
    ELSE IF ~HasDeviceId(GetConnTable(table))
    THEN /\ \E kept \in BOOLEAN : Abandon(0, kept, FALSE)
         /\ table' = GetConnTable(table)
         /\ resp' = Crash("history", "OperationalError", NoColumnText, req)
         /\ UNCHANGED <<rows, seq, now, inflight>>
    ELSE /\ table' = GetConnTable(table)
         /\ resp' = Response("history", 200, "", req,
                       HistoryBody(hours, limit,
                           Reverse(SelectWindow(rows, now, hours, limit))))
         /\ UNCHANGED <<rows, seq, now, openConns, locked, inflight>>

(***************************************************************************)
(* GET /status: the SELECT of the latest row, then the SELECT of the       *)
(* reference row.                                                          *)
(***************************************************************************)
\* SELECT moisture ... WHERE timestamp <= datetime('now','-24 hours')
\* ORDER BY timestamp DESC LIMIT 1
SelectYesterday(S, t) ==
    SelectLatest({r \in S : r.timestamp <= Datetime(t, DayHours).v})

\* strftime('%s','now') - strftime('%s', timestamp)
SecondsAgo(r, t) == (t - r.timestamp) * 3600

\* MoistureChange with the test made on the moisture value instead of the row:
\* a reference moisture of 0 counts as no reference.
MoistureChangeTruthy(latest, yesterday) ==
    IF yesterday # <<>> /\ yesterday[1].moisture # 0
    THEN Some(latest.moisture - yesterday[1].moisture)
    ELSE Null

\* moisture_change: None unless the second SELECT returned a row.
MoistureChange(latest, yesterday) ==
    IF yesterday # <<>>
    THEN Some(latest.moisture - yesterday[1].moisture)
    ELSE Null

\* seconds_ago is a column of the first SELECT.
StatusBody(latest, seconds_ago, yesterday) ==
    [device |-> [device_id |-> latest.device_id,
                 last_seen_seconds_ago |-> seconds_ago,
                 stale |-> seconds_ago > StaleSeconds],
     current |-> [moisture |-> latest.moisture,
                  temperature |-> latest.temperature,
                  timestamp |-> latest.timestamp],
     changes |-> [moisture_24h |-> MoistureChange(latest, yesterday)]]

StatusSelect ==
    IF ~HasDeviceId(GetConnTable(table))
    THEN /\ \E kept \in BOOLEAN : Abandon(0, kept, FALSE)
         /\ table' = GetConnTable(table)
         /\ resp' = Crash("status", "OperationalError", NoColumnText, NoReq)
         /\ UNCHANGED <<rows, seq, now, inflight>>
    ELSE IF SelectLatest(rows) = <<>>
    THEN /\ table' = GetConnTable(table)
         /\ resp' = Response("status", 404, "No readings yet", NoReq, NoBody)
         /\ UNCHANGED <<rows, seq, now, openConns, locked, inflight>>
    ELSE /\ MayStart
         /\ table' = GetConnTable(table)
         /\ inflight' = inflight (+) SetToBag({
                Running("status", 1, SecondsAgo(SelectLatest(rows)[1], now),
                        SelectLatest(rows)[1], NoAcc)})
         /\ openConns' = openConns + 1
         /\ UNCHANGED <<rows, seq, now, locked, resp>>

StatusFinish(r) ==
    /\ r.op = "status"
    /\ inflight' = inflight (-) SetToBag({r})
    /\ openConns' = openConns - 1
    /\ resp' = Response("status", 200, "", NoReq,
                        StatusBody(r.row, r.n, SelectYesterday(rows, now)))
    /\ UNCHANGED <<table, rows, seq, now, locked>>

(***************************************************************************)
(* GET /readings/summary: the COUNT, then MIN and MAX of timestamp, of      *)
(* moisture and of temperature, then the two averages.                     *)
(***************************************************************************)
RECURSIVE SumOf(_, _)
SumOf(S, field) ==
    IF S = {} THEN 0
    ELSE LET r == CHOOSE x \in S : TRUE
         IN r[field] + SumOf(S \ {r}, field)

\* MIN(field) and MAX(field): NULL over no rows.
MinOf(S, field) ==
    IF S = {} THEN Null
    ELSE Some(CHOOSE n \in {r[field] : r \in S} : \A r \in S : n <= r[field])
MaxOf(S, field) ==
    IF S = {} THEN Null
    ELSE Some(CHOOSE n \in {r[field] : r \in S} : \A r \in S : n >= r[field])

RECURSIVE BitLength(_)
BitLength(n) == IF n = 0 THEN 0 ELSE 1 + BitLength(n \div 2)

\* The binary digits of r / q (0 <= r < q) after the point, until `need`
\* significant digits are out, then the rounding of the rest to nearest,
\* ties to even: how the double nearest to the quotient lies to it.
RECURSIVE RoundRest(_, _, _, _, _)
RoundRest(r, q, need, started, lastbit) ==
    IF r = 0 THEN "exact"
    ELSE IF need = 0
    THEN IF 2 * r > q \/ (2 * r = q /\ lastbit = 1) THEN "above" ELSE "below"
    ELSE IF ~started /\ 2 * r < q
    THEN RoundRest(2 * r, q, need, FALSE, 0)
    ELSE RoundRest((2 * r) % q, q, need - 1, TRUE, (2 * r) \div q)

\* The double p / q (p >= 0, q > 0) against the rational p / q: a double has
\* 53 significant binary digits.
DoubleOfQuotient(p, q) ==
    IF p \div q = 0
    THEN RoundRest(p % q, q, 53, FALSE, 0)
    ELSE RoundRest(p % q, q, 53 - BitLength(p \div q), TRUE, (p \div q) % 2)

\* round(p / q, 1) in tenths, p >= 0: the tenth nearest to the double; when
\* the rational is halfway between two tenths the double decides, and a
\* double that is exactly halfway goes to the even tenth.
RoundTenth(p, q) ==
    LET m == (10 * p) \div q
        rest == (10 * p) % q
    IN IF 2 * rest < q THEN m
       ELSE IF 2 * rest > q THEN m + 1
       ELSE CASE DoubleOfQuotient(p, q) = "above" -> m + 1
              [] DoubleOfQuotient(p, q) = "below" -> m
              [] OTHER -> IF m % 2 = 0 THEN m ELSE m + 1

\* round(AVG(x), 1) if AVG(x) else 0, in tenths, over n rows whose values sum
\* to `quarters`: AVG is the double sum divided by the count, and is NULL
\* over no rows.
RoundAvg(quarters, n) ==
    IF n = 0 THEN 0
    ELSE IF quarters >= 0 THEN RoundTenth(quarters, 4 * n)
    ELSE -RoundTenth(-quarters, 4 * n)

\* (end - start).days
DaysBetween(start, end) == (end - start) \div DayHours

SummaryBody(r, S) ==
    [total_readings |-> r.n,
     monitoring_since |-> r.acc.first.v,
     last_reading |-> r.acc.last.v,
     days_monitored |-> DaysBetween(r.acc.first.v, r.acc.last.v),
     moisture |-> [min |-> r.acc.minm, max |-> r.acc.maxm,
                   average |-> RoundAvg(4 * SumOf(S, "moisture"),
                                        Cardinality(S))],
     temperature |-> [min |-> r.acc.mint, max |-> r.acc.maxt,
                      average |-> RoundAvg(SumOf(S, "temperature"),
                                           Cardinality(S))]]

SummaryCount ==
    IF Cardinality(rows) = 0
    THEN /\ table' = GetConnTable(table)
         /\ resp' = Response("summary", 404, "No readings yet", NoReq, NoBody)
         /\ UNCHANGED <<rows, seq, now, openConns, locked, inflight>>
    ELSE /\ MayStart
         /\ Cardinality({x \in BagToSet(inflight) : x.op = "summary"})
              < MaxSummaries
         /\ table' = GetConnTable(table)
         /\ inflight' = inflight (+) SetToBag({
                Running("summary", 1, Cardinality(rows), NoRow, NoAcc)})
         /\ openConns' = openConns + 1
         /\ UNCHANGED <<rows, seq, now, locked, resp>>

\* One more statement of summary: r becomes the request with acc and the
\* next pc.
SummaryRead(r, pc, acc) ==
    /\ r.op = "summary" /\ r.pc = pc
    /\ inflight' = (inflight (-) SetToBag({r}))
                   (+) SetToBag({Running("summary", pc + 1, r.n, NoRow, acc)})
    /\ UNCHANGED <<table, rows, seq, now, openConns, locked, resp>>

SummaryDates(r) ==
    SummaryRead(r, 1, [r.acc EXCEPT !.first = MinOf(rows, "timestamp"),
                                    !.last = MaxOf(rows, "timestamp")])

SummaryMoisture(r) ==
    SummaryRead(r, 2, [r.acc EXCEPT !.minm = MinOf(rows, "moisture"),
                                    !.maxm = MaxOf(rows, "moisture")])

SummaryTemperature(r) ==
    SummaryRead(r, 3, [r.acc EXCEPT !.mint = MinOf(rows, "temperature"),
                                    !.maxt = MaxOf(rows, "temperature")])

\* The averages, conn.close(), then datetime.fromisoformat(str(first_date)),
\* which raises on "None".
SummaryFinish(r) ==
    /\ r.op = "summary" /\ r.pc = 4
    /\ inflight' = inflight (-) SetToBag({r})
    /\ openConns' = openConns - 1
    /\ resp' = IF r.acc.first.null
               THEN Crash("summary", "ValueError",
                          "Invalid isoformat string: 'None'", NoReq)
               ELSE Response("summary", 200, "", NoReq, SummaryBody(r, rows))
    /\ UNCHANGED <<table, rows, seq, now, locked>>

(***************************************************************************)
(* POST /delete-latest: the SELECT, then the DELETE by id.                 *)
(***************************************************************************)
DeleteById(S, id) == {r \in S : r.id # id}

DeleteSelect ==
    IF ~HasDeviceId(GetConnTable(table))
    THEN /\ \E kept \in BOOLEAN : Abandon(0, kept, FALSE)
         /\ table' = GetConnTable(table)
         /\ resp' = Crash("delete", "OperationalError", NoColumnText, NoReq)
         /\ UNCHANGED <<rows, seq, now, inflight>>
    ELSE IF SelectLatest(rows) = <<>>
    THEN /\ table' = GetConnTable(table)
         /\ resp' = Response("delete", 404, "No readings to delete", NoReq,
                             NoBody)
         /\ UNCHANGED <<rows, seq, now, openConns, locked, inflight>>
    ELSE /\ MayStart
         /\ table' = GetConnTable(table)
         /\ inflight' = inflight (+) SetToBag({
                Running("delete", 1, 0, SelectLatest(rows)[1], NoAcc)})
         /\ openConns' = openConns + 1
         /\ UNCHANGED <<rows, seq, now, locked, resp>>

DeleteExec(r) ==
    /\ r.op = "delete"
    /\ inflight' = inflight (-) SetToBag({r})
    /\ IF locked
       THEN /\ \E kept \in BOOLEAN : Abandon(1, kept, FALSE)
            /\ resp' = Crash("delete", "OperationalError", LockedText, NoReq)
            /\ UNCHANGED <<table, rows, seq, now>>
       ELSE /\ rows' = DeleteById(rows, r.row.id)
            /\ openConns' = openConns - 1
            /\ resp' = Response("delete", 200, "Deleted latest reading", NoReq,
                                [deleted |-> r.row])
            /\ UNCHANGED <<table, seq, now, locked>>

(***************************************************************************)
(* POST /plant/reset: the confirmation check, the COUNT, then the two       *)
(* DELETEs and the commit.                                                 *)
(***************************************************************************)
\* Request bodies: none, the empty object, an object without "confirm", an
\* object with a confirm value.
ResetInputs ==
    { [body |-> "none", confirm |-> ""], [body |-> "empty", confirm |-> ""],
      [body |-> "dict", confirm |-> "absent"],
      [body |-> "dict", confirm |-> "nope"],
      [body |-> "dict", confirm |-> ConfirmToken] }

ConfirmedBody == [body |-> "dict", confirm |-> ConfirmToken]

Confirmed(q) == q.body = "dict" /\ q.confirm = ConfirmToken

ResetCount(q) ==
    IF ~Confirmed(q)
    THEN /\ resp' = Response("reset", 400,
                 "Confirmation required. Send {'confirm': 'yes-delete-all'}",
                 q, NoBody)
         /\ UNCHANGED <<table, rows, seq, now, openConns, locked, inflight>>
    ELSE IF Cardinality(rows) = 0
    THEN /\ table' = GetConnTable(table)
         /\ resp' = Response("reset", 200, "No readings to delete", q,
                             [status |-> "info", deleted_count |-> 0])
         /\ UNCHANGED <<rows, seq, now, openConns, locked, inflight>>
    ELSE /\ MayStart
         /\ table' = GetConnTable(table)
         /\ inflight' = inflight (+) SetToBag({
                Running("reset", 1, Cardinality(rows), NoRow, NoAcc)})
         /\ openConns' = openConns + 1
         /\ UNCHANGED <<rows, seq, now, locked, resp>>

\* DELETE FROM readings and DELETE FROM sqlite_sequence are one transaction.
ResetExec(r) ==
    /\ r.op = "reset"
    /\ inflight' = inflight (-) SetToBag({r})
    /\ IF locked
       THEN /\ \E kept \in BOOLEAN : Abandon(1, kept, FALSE)
            /\ resp' = Crash("reset", "OperationalError", LockedText,
                             ConfirmedBody)
            /\ UNCHANGED <<table, rows, seq, now>>
       ELSE /\ rows' = {}
            /\ seq' = 0
            /\ openConns' = openConns - 1
            \* the message also spells the count, which is deleted_count
            /\ resp' = Response("reset", 200, "Plant data reset",
                                ConfirmedBody,
                                [status |-> "success", deleted_count |-> r.n,
                                 reset_time |-> now])
            /\ UNCHANGED <<table, now, locked>>

(***************************************************************************)
(* The interpreter collects a connection that a failed request left        *)
(* behind: the one that holds the write lock, or another one.              *)
(***************************************************************************)
Release ==
    /\ openConns' = openConns - 1
    /\ \/ locked /\ locked' = FALSE
       \/ /\ openConns - Held > (IF locked THEN 1 ELSE 0)
          /\ locked' = locked
    /\ UNCHANGED <<table, rows, seq, now, inflight, resp>>

(***************************************************************************)
(* The store clock.                                                        *)
(***************************************************************************)
Tick ==
    /\ now + TickHours <= MaxNow
    /\ now' = now + TickHours
    /\ UNCHANGED <<table, rows, seq, openConns, locked, inflight, resp>>

(***************************************************************************)
(* Specifications.                                                         *)
(***************************************************************************)
NoResp == Response("", 0, "", NoReq, NoBody)

\* A new database file: the first get_conn creates the table.
Init ==
    /\ table = "absent"
    /\ rows = {}
    /\ seq = 0
    /\ now = 0
    /\ openConns = 0
    /\ locked = FALSE
    /\ inflight = EmptyBag
    /\ resp = NoResp

\* The database file as setup_db.py leaves it.
InitLegacy ==
    /\ table = "legacy"
    /\ rows = {}
    /\ seq = 0
    /\ now = 0
    /\ openConns = 0
    /\ locked = FALSE
    /\ inflight = EmptyBag
    /\ resp = NoResp

IngestAny == \E p \in StorePayloads : Ingest(p)
IngestAll == \E p \in Payloads : Ingest(p)
HistoryAny == \E a \in StoreHistoryInputs : History(a[1], a[2])
HistoryAll == \E a \in HistoryInputs : History(a[1], a[2])
ResetAny == \E q \in ResetInputs : ResetCount(q)
StatusFinishAny == \E r \in BagToSet(inflight) : StatusFinish(r)
SummaryDatesAny == \E r \in BagToSet(inflight) : SummaryDates(r)
SummaryMoistureAny == \E r \in BagToSet(inflight) : SummaryMoisture(r)
SummaryTemperatureAny == \E r \in BagToSet(inflight) : SummaryTemperature(r)
SummaryFinishAny == \E r \in BagToSet(inflight) : SummaryFinish(r)
DeleteExecAny == \E r \in BagToSet(inflight) : DeleteExec(r)
ResetExecAny == \E r \in BagToSet(inflight) : ResetExec(r)

Next ==
    \/ IngestAny
    \/ Latest
    \/ HistoryAny
    \/ StatusSelect
    \/ StatusFinishAny
    \/ SummaryCount
    \/ SummaryDatesAny
    \/ SummaryMoistureAny
    \/ SummaryTemperatureAny
    \/ SummaryFinishAny
    \/ DeleteSelect
    \/ DeleteExecAny
    \/ ResetAny
    \/ ResetExecAny
    \/ Release
    \/ Tick

\* Every request but summary, which only reads and so changes the outcome of
\* no other request.
NextStore ==
    \/ IngestAny
    \/ Latest
    \/ HistoryAny
    \/ StatusSelect
    \/ StatusFinishAny
    \/ DeleteSelect
    \/ DeleteExecAny
    \/ ResetAny
    \/ ResetExecAny
    \/ Release
    \/ Tick

\* On the legacy table no INSERT succeeds and every SELECT of device_id
\* fails: the table stays empty, and no request gets past its first
\* statement.
NextLegacy ==
    \/ IngestAny
    \/ Latest
    \/ HistoryAny
    \/ StatusSelect
    \/ SummaryCount
    \/ DeleteSelect
    \/ ResetAny
    \/ Release
    \/ Tick

\* save_readings alone, on every payload.
NextIngest ==
    \/ IngestAll
    \/ Release
    \/ Tick

\* The reads of one statement on every input, over the stores that
\* save_readings builds.
NextReads ==
    \/ IngestAny
    \/ Latest
    \/ HistoryAll
    \/ Release
    \/ Tick

Spec == Init /\ [][Next]_vars

SpecStore == Init /\ [][NextStore]_vars

SpecIngest == Init /\ [][NextIngest]_vars

SpecReads == Init /\ [][NextReads]_vars

SpecLegacy == InitLegacy /\ [][NextLegacy]_vars



(***************************************************************************)
(* Steps, as seen from the variables.  A handler of one statement sets     *)
(* resp and leaves inflight and now alone; Release is the only step that   *)
(* closes a connection without a request completing.  A handler of several *)
(* statements puts its request r into inflight with its first statement    *)
(* and takes it out with its last.                                         *)
(***************************************************************************)
Atomic(op) ==
    /\ resp'.op = op
    /\ inflight' = inflight
    /\ now' = now
    /\ openConns' >= openConns
Begins(op, r) == r.op = op /\ inflight' = inflight (+) SetToBag({r})
Ends(op, r) == r.op = op /\ inflight' = inflight (-) SetToBag({r})

IsMostRecent(r, S) == r \in S /\ \A q \in S : q.timestamp <= r.timestamp

(***************************************************************************)
(* C1.  Every stored row has a moisture in [0, 2000] and a temperature in  *)
(* [-20, 100], and ingest stores a row iff the supplied moisture is        *)
(* integer-valued and in [0, 2000] and the supplied temperature is in      *)
(* [-20, 100].                                                             *)
(***************************************************************************)
RowsInRange ==
    \A r \in rows : /\ r.moisture \in MoistureMin..MoistureMax
                    /\ r.temperature \in (4 * TempMin)..(4 * TempMax)

IsNumber(x) == x.k \in {"int", "float", "strint", "strdec"}

IntegerValued(x) == IsNumber(x) /\ x.v % 4 = 0

ValidReading(p) ==
    /\ p.body = "dict"
    /\ IntegerValued(p.m)
    /\ p.m.v >= 4 * MoistureMin /\ p.m.v <= 4 * MoistureMax
    /\ IsNumber(p.t)
    /\ p.t.v >= 4 * TempMin /\ p.t.v <= 4 * TempMax

C1_StoredIffValid ==
    [][ /\ RowsInRange'
        /\ Atomic("ingest") => ((rows' # rows) <=> ValidReading(resp'.req))
      ]_vars

(***************************************************************************)
(* C2.  When a confirmed reset has completed and the next write is an      *)
(* ingest, the row that ingest stores has id 1.                            *)
(***************************************************************************)
C2_ResetThenIngestIdOne ==
    [][ (/\ resp.op = "reset" /\ resp.code = 200
         /\ Atomic("ingest") /\ resp'.code = 201)
        => \A r \in rows' \ rows : r.id = 1 ]_vars

(***************************************************************************)
(* C3.  After a successful ingest, the next latest() with no insert in     *)
(* between returns that reading: same moisture, temperature and device_id. *)
(***************************************************************************)
C3_LatestReturnsIngested ==
    [][ (/\ resp.op = "ingest" /\ resp.code = 201
         /\ Atomic("latest"))
        => /\ resp'.code = 200
           /\ resp'.body.moisture = PyInt(resp.req.m).v
           /\ resp'.body.temperature = PyFloat(resp.req.t).v
           /\ resp'.body.device_id = DeviceOf(resp.req) ]_vars

(***************************************************************************)
(* C4.  For hours > 0 and limit in 1..5000, history returns at most limit  *)
(* rows, each with timestamp > now - hours, oldest first; of the k rows of *)
(* the window it returns exactly the min(k, limit) most recent, and count  *)
(* is the number of rows returned.                                         *)
(***************************************************************************)
InWindow(S, t, hours) == {r \in S : r.timestamp > t - hours}

HistoryAsClaimed(S, t, hours, limit, body) ==
    LET rd == body.readings
        got == {rd[i] : i \in 1..Len(rd)}
        W == InWindow(S, t, hours)
    IN /\ Len(rd) <= limit
       /\ got \subseteq W
       /\ Cardinality(got) = Len(rd)
       /\ \A i \in 1..Len(rd) : \A j \in i..Len(rd) :
              rd[i].timestamp <= rd[j].timestamp
       /\ Len(rd) = Min2(Cardinality(W), limit)
       /\ \A r \in W \ got : \A g \in got : r.timestamp <= g.timestamp
       /\ body.count = Len(rd)

C4_HistoryWindow ==
    [][ (/\ Atomic("history")
         /\ resp'.req.hours > 0
         /\ resp'.req.limit >= 1 /\ resp'.req.limit <= LimitMax)
        => /\ resp'.code = 200
           /\ HistoryAsClaimed(rows, now, resp'.req.hours, resp'.req.limit,
                               resp'.body) ]_vars

(***************************************************************************)
(* C5.  Ingest checks, in this order: body present, moisture key present,  *)
(* temperature key present, both values coercible, moisture in range,      *)
(* temperature in range.  The error reported is that of the first check    *)
(* that fails, and no row is written.                                      *)
(***************************************************************************)
IntCoercible(x) == x.k \in {"int", "float", "strint"}
FloatCoercible(x) == x.k \in {"int", "float", "strint", "strdec", "inf", "nan"}

FirstFailingCheck(p) ==
    IF p.body # "dict" THEN "No data provided"
    ELSE IF p.m.k = "absent" THEN "moisture data is missing"
    ELSE IF p.t.k = "absent" THEN "temperature data is missing"
    ELSE IF ~IntCoercible(p.m) \/ ~FloatCoercible(p.t)
    THEN "Invalid data types: moisture must be integer, temperature must be number"
    ELSE IF Trunc(p.m.v) < MoistureMin \/ Trunc(p.m.v) > MoistureMax
    THEN "moisture levels are invalid"
    ELSE IF ~(IsNumber(p.t) /\ p.t.v >= 4 * TempMin /\ p.t.v <= 4 * TempMax)
    THEN "temperature levels are invalid"
    ELSE ""

C5_FirstFailingCheck ==
    [][ (Atomic("ingest") /\ FirstFailingCheck(resp'.req) # "")
        => /\ resp'.code = 400
           /\ resp'.msg = FirstFailingCheck(resp'.req)
           /\ rows' = rows ]_vars

(***************************************************************************)
(* C6.  A reset without the token "yes-delete-all" is rejected with the    *)
(* confirmation-required error and leaves the rows and the id sequence     *)
(* unchanged; with the token, on N rows (N as the reset counts them), it   *)
(* returns deleted_count = N and leaves the store empty.                   *)
(***************************************************************************)
C6_ResetConfirmation ==
    [][ /\ Atomic("reset") =>
             IF resp'.req = ConfirmedBody
             THEN /\ rows = {}
                  /\ resp'.code = 200
                  /\ resp'.body.deleted_count = 0
                  /\ rows' = {}
             ELSE /\ resp'.code = 400
                  /\ resp'.msg =
                       "Confirmation required. Send {'confirm': 'yes-delete-all'}"
                  /\ rows' = rows
                  /\ seq' = seq
        /\ \A r \in BagToSet(inflight) : Ends("reset", r) =>
             /\ resp'.code = 200
             /\ resp'.body.deleted_count = r.n
             /\ rows' = {}
      ]_vars

(***************************************************************************)
(* C7.  On a non-empty store status() reports moisture_24h = null when no  *)
(* row has timestamp <= now - 24h, and otherwise latest.moisture minus the *)
(* moisture of the most recent row with timestamp <= now - 24h (a zero     *)
(* change is 0, not null); on an empty store it reports the empty state.   *)
(* As stated, of the store as it is when status() answers:                 *)
(* C7_StatusDelta.  Of the store as each of the two SELECTs reads it:      *)
(* C7_StatusDeltaAtReads.                                                  *)
(***************************************************************************)
CurrentOf(row) ==
    [moisture |-> row.moisture, temperature |-> row.temperature,
     timestamp |-> row.timestamp]

\* moisture_24h as the claim has it for the latest row `latest`, the rows S
\* and the clock t.
DeltaAsClaimed(ch, latest, S, t) ==
    LET old == {r \in S : r.timestamp <= t - 24}
    IN /\ old = {} => ch.null
       /\ old # {} => /\ ~ch.null
                      /\ \E r \in old : /\ IsMostRecent(r, old)
                                        /\ ch.v = latest.moisture - r.moisture

C7_StatusDelta ==
    [][ /\ Atomic("status") =>
             /\ rows = {}
             /\ resp'.code = 404 /\ resp'.msg = "No readings yet"
        /\ \A r \in BagToSet(inflight) : Ends("status", r) =>
             /\ rows # {}
             /\ resp'.code = 200
             /\ \E l \in rows : /\ IsMostRecent(l, rows)
                                /\ resp'.body.current = CurrentOf(l)
                                /\ DeltaAsClaimed(
                                       resp'.body.changes.moisture_24h,
                                       l, rows, now)
      ]_vars

\* C7, of the store as each SELECT reads it: status() reports the empty
\* state when its first SELECT finds no row; otherwise current is the row
\* this SELECT found, a most recent one at that moment, and moisture_24h is
\* null when the second SELECT finds no row with timestamp <= now - 24h and
\* otherwise current.moisture minus the moisture of a most recent such row
\* (a zero change is 0, not null).
C7_StatusDeltaAtReads ==
    [][ /\ Atomic("status") =>
             /\ rows = {}
             /\ resp'.code = 404 /\ resp'.msg = "No readings yet"
        /\ \A r \in BagToSet(inflight') : Begins("status", r) =>
             IsMostRecent(r.row, rows)
        /\ \A r \in BagToSet(inflight) : Ends("status", r) =>
             /\ resp'.code = 200
             /\ resp'.body.current = CurrentOf(r.row)
             /\ DeltaAsClaimed(resp'.body.changes.moisture_24h, r.row, rows,
                               now)
      ]_vars

\* status() has reported a change of 0, and not null, where two rows of
\* different timestamps and different moisture are at least a day old: the
\* change is the one against the more recent of the two.
C7_Witness ==
    /\ resp.op = "status"
    /\ resp.code = 200
    /\ ~resp.body.changes.moisture_24h.null
    /\ resp.body.changes.moisture_24h.v = 0
    /\ \E r1 \in rows : \E r2 \in rows :
          /\ r1.timestamp < r2.timestamp
          /\ r2.timestamp <= now - 24
          /\ resp.body.current.moisture - r2.moisture = 0
          /\ resp.body.current.moisture - r1.moisture # 0

(***************************************************************************)
(* C8.  After get_conn has run against a readings table without device_id  *)
(* the table has the device_id column, and an ingest then succeeds.        *)
(***************************************************************************)
GetConnOps == {"latest", "history", "status", "summary", "delete", "reset"}

C8_MigrationAddsDeviceId ==
    /\ resp.op \in GetConnOps => HasDeviceId(table)
    /\ ~(resp.op = "ingest" /\ resp.msg = "OperationalError")

(***************************************************************************)
(* C9.  No connection is open once the operation that opened it has        *)
(* returned: the open connections are those of the requests still running. *)
(***************************************************************************)
C9_NoOpenConnection == openConns = Held

(***************************************************************************)
(* C10.  delete-latest removes exactly one row, the row it looked up and   *)
(* returns, which was the most recent at the lookup; every other row is    *)
(* left unchanged.                                                         *)
(***************************************************************************)
C10_DeletesLookedUpRow ==
    [][ /\ \A r \in BagToSet(inflight') : Begins("delete", r) =>
             IsMostRecent(r.row, rows)
        /\ \A r \in BagToSet(inflight) : Ends("delete", r) =>
             /\ resp'.code = 200
             /\ resp'.body.deleted = r.row
             /\ r.row \in rows
             /\ rows' = rows \ {r.row} ]_vars

\* delete-latest has completed and a row newer than the one it removed is
\* still stored: an ingest committed between its SELECT and its DELETE.
C10_Witness ==
    /\ resp.op = "delete"
    /\ resp.code = 200
    /\ \E r \in rows : r.timestamp > resp.body.deleted.timestamp
====
